---- MODULE Spec2Model ----
(***************************************************************************)
(* A model of jetstream_pt/third_party/gemma/model.py (the Gemma decode    *)
(* forward pass: cursor arithmetic, the per-layer loop, attention          *)
(* construction, rotary embedding) and of jetstream_pt/fetch_models.py     *)
(* (environment construction and model instantiation).                     *)
(*                                                                         *)
(* Each subsystem has its own specification (SpecForward, SpecEnv, ...);   *)
(* the variables of the other subsystems are held at their initial value.  *)
(***************************************************************************)
EXTENDS Integers, Sequences, FiniteSets, TLC

VARIABLES
  cache_len,   \* env.cache_len, fixed when the caches are allocated
  caches,      \* caches[layer][slot][physical position]: the decode KV caches
  start,       \* per-slot ring-buffer origin the caller supplies
  pos,         \* per-slot next decode position the caller supplies as input_pos
  fwd,         \* the GemmaModel.forward call in flight (its locals and position)
  FLAGS,       \* the absl flags of fetch_models.py, parsed once at start-up
  envd,        \* the last construct_env_data_from_model_id call and its outcome
  attn,        \* the GemmaAttention object last constructed
  quant,       \* env.quant_config.enable_kv_quantization
  rot,         \* an apply_rotary_emb call: its input and its output
  inst,        \* the instantiate_model_from_repo_id call in flight
  fs           \* the model directory on disk

fwdVars == <<cache_len, caches, start, pos, fwd>>
envVars == <<envd>>
attnVars == <<attn, quant>>
rotVars == <<rot>>
instVars == <<inst, fs>>
vars == <<cache_len, caches, start, pos, fwd, FLAGS, envd, attn, quant, rot,
          inst, fs>>

---------------------------------------------------------------------------
(* Bounds *)
NumLayers == 2
BatchSize == 2
MaxCacheLen == 3

Layers == 0 .. (NumLayers - 1)
Slots == 0 .. (BatchSize - 1)
CacheLens == 1 .. MaxCacheLen
\* decode positions run far enough for two full turns of the largest ring
MaxPos == 2 * MaxCacheLen

---------------------------------------------------------------------------
(* The state each subsystem is held at while another one is checked *)

DefaultOverride == -1

DefaultFlags ==
  [override_max_cache_length |-> DefaultOverride,
   internal_use_random_weights |-> FALSE,
   internal_use_tiny_model |-> FALSE]

NoCall == [status |-> "none"]
NoAttention == [pc |-> "none"]
NoRotary == [pc |-> "none"]
NoInstantiate == [pc |-> "idle"]
NoDir == [exists |-> FALSE, files |-> << >>]

FwdRest ==
  /\ cache_len = 1
  /\ caches = << >>
  /\ start = << >>
  /\ pos = << >>
  /\ fwd = [pc |-> "idle"]
FlagsRest == FLAGS = DefaultFlags
EnvRest == envd = NoCall
AttnRest == attn = NoAttention /\ quant = FALSE
RotRest == rot = NoRotary
InstRest == inst = NoInstantiate /\ fs = NoDir

---------------------------------------------------------------------------
(* GemmaModel.forward *)

\* Python's None (start=None, end=None)
None == << >>

\* a cache entry that was never written
Empty == << >>

\* allocate: every entry of every layer and slot starts unwritten
AllocCaches(L) ==
  [l \in Layers |-> [s \in Slots |-> [p \in 0 .. (L - 1) |-> Empty]]]

\* end = None if start is None else (start + input_pos) % self.env.cache_len
ComputeEnd_NoWrap(st, input_pos, L) ==
  IF st = None THEN None ELSE [s \in DOMAIN st |-> st[s] + input_pos[s]]

ComputeEnd_OffByOne(st, input_pos, L) ==
  IF st = None THEN None ELSE [s \in DOMAIN st |-> (st[s] + input_pos[s] + 1) % L]

ComputeEnd_SharedStart(st, input_pos, L) ==
  IF st = None THEN None ELSE [s \in DOMAIN st |-> (st[0] + input_pos[s]) % L]

ComputeEnd(st, input_pos, L) ==
  IF st = None THEN None ELSE [s \in DOMAIN st |-> (st[s] + input_pos[s]) % L]

\* cache=caches[i]: the index of the cache handed to layer i
CacheIndex_First(i) == 0

CacheIndex(i) == i

\* the key/value projection layer i computes for slot s from its token at
\* position p (xk, xv: rows of the batch are projected independently, the
\* rotary table is indexed by the slot's own input_pos)
KV(i, s, p) == <<i, s, p>>

\* the kernel's cache write: each slot's new key/value lands in that slot's
\* row at that slot's cursor
KernelWrite(cache, end, kv) ==
  [s \in DOMAIN cache |-> [cache[s] EXCEPT ![end[s]] = kv[s]]]

Idle == [pc |-> "idle", start |-> None, input_pos |-> None, end |-> None,
         i |-> 0, calls |-> << >>, pre |-> << >>]

\* a decode step: every slot of the batch is stepped at its own position
ForwardDecode ==
  /\ fwd.pc \in {"idle", "done"}
  /\ \A s \in Slots : pos[s] < MaxPos
  /\ fwd' = [pc |-> "loop", start |-> start, input_pos |-> pos,
             end |-> ComputeEnd(start, pos, cache_len),
             i |-> 0, calls |-> << >>, pre |-> caches]
  /\ UNCHANGED <<cache_len, caches, start, pos>>
  /\ UNCHANGED <<FLAGS, envVars, attnVars, rotVars, instVars>>

\* a prefill call: start is not supplied (the prompt starts at position 0)
ForwardPrefill ==
  /\ fwd.pc \in {"idle", "done"}
  /\ fwd' = [pc |-> "loop", start |-> None,
             input_pos |-> [s \in Slots |-> 0],
             end |-> ComputeEnd(None, [s \in Slots |-> 0], cache_len),
             i |-> 0, calls |-> << >>, pre |-> caches]
  /\ UNCHANGED <<cache_len, caches, start, pos>>
  /\ UNCHANGED <<FLAGS, envVars, attnVars, rotVars, instVars>>

\* one iteration of "for i in range(len(self.layers))": layer i runs its
\* attention kernel once on the cache it was handed
LayerCall ==
  /\ fwd.pc = "loop"
  /\ fwd.i < NumLayers
  /\ LET i == fwd.i
         c == CacheIndex(i)
     IN /\ caches' = IF fwd.end = None
                       THEN caches
                       ELSE [caches EXCEPT ![c] =
                              KernelWrite(@, fwd.end,
                                [s \in Slots |-> KV(i, s, fwd.input_pos[s])])]
        /\ fwd' = [fwd EXCEPT !.i = i + 1,
                              !.calls = Append(@, [layer |-> i, cache |-> c])]
  /\ UNCHANGED <<cache_len, start, pos>>
  /\ UNCHANGED <<FLAGS, envVars, attnVars, rotVars, instVars>>

\* the loop is over: forward returns the logits; the caller then moves on
\* the slots it keeps decoding (every slot, or slot 0 alone while the others
\* are stepped in place)
ForwardReturn ==
  /\ fwd.pc = "loop"
  /\ fwd.i = NumLayers
  /\ fwd' = [fwd EXCEPT !.pc = "done"]
  /\ \E adv \in {Slots, {0}} :
       pos' = [s \in Slots |->
                 IF fwd.start # None /\ s \in adv THEN pos[s] + 1 ELSE pos[s]]
  /\ UNCHANGED <<cache_len, caches, start>>
  /\ UNCHANGED <<FLAGS, envVars, attnVars, rotVars, instVars>>

InitForward ==
  /\ cache_len \in CacheLens
  /\ caches = AllocCaches(cache_len)
  /\ start \in [Slots -> 0 .. MaxCacheLen]
  /\ pos = [s \in Slots |-> 0]
  /\ fwd = Idle
  /\ FlagsRest /\ EnvRest /\ AttnRest /\ RotRest /\ InstRest

NextForward ==
  \/ ForwardDecode
  \/ ForwardPrefill
  \/ LayerCall
  \/ ForwardReturn

SpecForward == InitForward /\ [][NextForward]_vars

---------------------------------------------------------------------------
(* Claims about GemmaModel.forward *)

Returned == fwd.pc = "done"
InCall == fwd.pc \in {"loop", "done"}

\* C1: when start is supplied, every slot's write cursor is
\* (start + input_pos) mod cache_len and lies in [0, cache_len); when start
\* is None, end is None.
C1_CursorInRange ==
  InCall =>
    /\ fwd.start = None => fwd.end = None
    /\ fwd.start # None =>
         /\ fwd.end # None
         /\ DOMAIN fwd.end = Slots
         /\ \A s \in Slots :
              /\ 0 <= fwd.end[s]
              /\ fwd.end[s] < cache_len
              /\ \E q \in 0 .. (2 * MaxPos) :
                   fwd.start[s] + fwd.input_pos[s] = q * cache_len + fwd.end[s]

\* a decode call whose sum start + input_pos has wrapped twice round a
\* ring of more than one entry
C1_Witness ==
  /\ InCall
  /\ fwd.start # None
  /\ \E s \in Slots : fwd.start[s] + fwd.input_pos[s] >= 2 * cache_len
  /\ cache_len > 1

\* slot s has been decoded at the logical positions 0 .. 2L-1: the call that
\* just returned wrote its position 2L-1
TwoTurns(s) ==
  /\ Returned
  /\ fwd.start # None
  /\ fwd.input_pos[s] = 2 * cache_len - 1
  /\ pos[s] = 2 * cache_len

\* C3 as stated: after decode steps at logical positions 0..2L-1 the entry at
\* physical position p holds the value written at logical position p + L.
C3_PhysicalEqualsLogical ==
  \A s \in Slots : TwoTurns(s) =>
    \A l \in Layers : \A p \in 0 .. (cache_len - 1) :
      caches[l][s][p] = KV(l, s, p + cache_len)

\* C3 amended: after decode steps at logical positions 0..2L-1 the entry at
\* physical position (start + p) mod L holds the value written at logical
\* position p + L (last writer wins), for every origin start.
C3_WrapAround ==
  \A s \in Slots : TwoTurns(s) =>
    \A l \in Layers : \A p \in 0 .. (cache_len - 1) :
      caches[l][s][(start[s] + p) % cache_len] = KV(l, s, p + cache_len)

C3_Witness ==
  \E s \in Slots :
    /\ TwoTurns(s)
    /\ cache_len = MaxCacheLen
    /\ start[s] % cache_len # 0

\* the row of slot s in layer l after the call, computed from that slot's
\* own start, input_pos and row before the call
OwnRow(l, s) ==
  [fwd.pre[l][s] EXCEPT ![(fwd.start[s] + fwd.input_pos[s]) % cache_len] =
     KV(l, s, fwd.input_pos[s])]

\* C4: slot isolation: after a decode step every slot's cache row is what
\* that slot's own write made of it; no other slot's write changed it.
C4_SlotIsolation ==
  (Returned /\ fwd.start # None) =>
    \A l \in Layers : \A s \in Slots : caches[l][s] = OwnRow(l, s)

\* two slots were written at different cursors and different positions
C4_Witness ==
  /\ Returned
  /\ fwd.start # None
  /\ \E s, t \in Slots :
       /\ fwd.end[s] # fwd.end[t]
       /\ fwd.input_pos[s] # fwd.input_pos[t]
       /\ caches[0][t] # fwd.pre[0][t]
       /\ fwd.pre[0][s][fwd.end[t]] # Empty

\* C7: within one forward call layer i's kernel is invoked exactly once, on
\* caches[i] and no other cache, in increasing order 0..n-1.
C7_OneCallPerLayer ==
  InCall =>
    /\ Len(fwd.calls) = fwd.i
    /\ \A k \in 1 .. Len(fwd.calls) :
         /\ fwd.calls[k].layer = k - 1
         /\ fwd.calls[k].cache = fwd.calls[k].layer
    /\ \A j, k \in 1 .. Len(fwd.calls) :
         j # k => fwd.calls[j].cache # fwd.calls[k].cache
    /\ Returned => Len(fwd.calls) = NumLayers

C7_Witness ==
  /\ Returned
  /\ fwd.start # None
  /\ Len(fwd.calls) = NumLayers
  /\ NumLayers > 1

---------------------------------------------------------------------------
(* fetch_models.py: construct_env_data_from_model_id *)

MaxBatch == 2
MaxInputLen == 2
MaxOutputLen == 2
MaxOverride == 3

\* ModelInfo(model_class, num_layers, num_kv_heads, head_dim, n_reps)
ModelInfo(cls, layers, kv, hd, reps) ==
  [model_class |-> cls, num_layers |-> layers, num_kv_heads |-> kv,
   head_dim |-> hd, n_reps |-> reps]

\* model_id_to_class (the Gemma entries, two Llama entries and Mixtral)
model_id_to_class ==
  [r \in {"meta-llama/Llama-2-7b-hf", "meta-llama/Llama-2-70b-hf",
          "google/gemma-2b", "google/gemma-2b-it",
          "google/gemma-7b", "google/gemma-7b-it",
          "mistralai/Mixtral-8x7B-v0.1"} |->
     CASE r = "meta-llama/Llama-2-7b-hf" -> ModelInfo("llama", 32, 32, 128, 1)
       [] r = "meta-llama/Llama-2-70b-hf" -> ModelInfo("llama", 80, 8, 128, 8)
       [] r \in {"google/gemma-2b", "google/gemma-2b-it"} ->
            ModelInfo("gemma", 18, 1, 256, 8)
       [] r \in {"google/gemma-7b", "google/gemma-7b-it"} ->
            ModelInfo("gemma", 28, 16, 256, 1)
       [] OTHER -> ModelInfo("mixtral", 32, 8, 128, 4)]

\* a repo id the table does not hold
UnknownRepo == "unknown/model"

RepoIds == DOMAIN model_id_to_class \cup {UnknownRepo}

\* os.path.join(FLAGS.working_dir, repo_id, "hf_original")
HfDir(repo_id) == <<"working_dir", repo_id, "hf_original">>

\* max_cache_length = FLAGS.override_max_cache_length
\*   if FLAGS.override_max_cache_length > 0 else input_length + output_length
MaxCacheLength_AcceptZero(flags, input_length, output_length) ==
  IF flags.override_max_cache_length >= 0
    THEN flags.override_max_cache_length
    ELSE input_length + output_length

MaxCacheLength(flags, input_length, output_length) ==
  IF flags.override_max_cache_length > 0
    THEN flags.override_max_cache_length
    ELSE input_length + output_length

\* the whole function: the value it returns, or the exception it raises
ConstructEnvData(flags, repo_id, batch_size, input_length, output_length) ==
  LET max_cache_length == MaxCacheLength(flags, input_length, output_length)
  IN IF repo_id \notin DOMAIN model_id_to_class
       \* model_info is None: model_info.n_reps raises
       THEN [status |-> "raised", error |-> "AttributeError"]
       ELSE LET model_info == model_id_to_class[repo_id]
            IN [status |-> "returned",
                env_data |->
                  [tokenizer_path |-> Append(HfDir(repo_id), "tokenizer.model"),
                   checkpoint_path |-> HfDir(repo_id),
                   checkpoint_format |-> "safetensors",
                   batch_size |-> batch_size,
                   max_decode_length |-> output_length,
                   max_input_sequence_length |-> input_length,
                   cache_sequence_length |-> max_cache_length,
                   bf16_enable |-> TRUE,
                   sharding_config_path |-> "",
                   shard_on_batch |-> FALSE,
                   n_reps |-> model_info.n_reps,
                   cache_shape |-> <<batch_size, model_info.num_kv_heads,
                                     max_cache_length, model_info.head_dim>>,
                   num_layers |-> model_info.num_layers]]

CallConstructEnvData ==
  /\ \E repo_id \in RepoIds, batch_size \in 0 .. MaxBatch,
        input_length \in 0 .. MaxInputLen, output_length \in 0 .. MaxOutputLen :
       envd' = ConstructEnvData(FLAGS, repo_id, batch_size, input_length,
                                output_length)
  /\ UNCHANGED <<FLAGS, fwdVars, attnVars, rotVars, instVars>>

InitEnv ==
  /\ FLAGS \in [override_max_cache_length : DefaultOverride .. MaxOverride,
                 internal_use_random_weights : {FALSE},
                 internal_use_tiny_model : {FALSE}]
  /\ envd = NoCall
  /\ FwdRest /\ AttnRest /\ RotRest /\ InstRest

NextEnv == CallConstructEnvData

SpecEnv == InitEnv /\ [][NextEnv]_vars

EnvReturned == envd.status = "returned"

\* C2: the cache length (cache_sequence_length and cache_shape[3]) is
\* input_length + output_length unless override_max_cache_length > 0, in
\* which case it is the flag's value; 0 and negative values are no override.
C2_CacheLength ==
  EnvReturned =>
    LET d == envd.env_data
        o == FLAGS.override_max_cache_length
        sum == d.max_input_sequence_length + d.max_decode_length
    IN /\ d.cache_sequence_length = d.cache_shape[3]
       /\ o > 0 => d.cache_sequence_length = o
       /\ o <= 0 => d.cache_sequence_length = sum

\* a call returned with the override set to 0 while the lengths sum to more
C2_Witness ==
  /\ EnvReturned
  /\ FLAGS.override_max_cache_length = 0
  /\ envd.env_data.cache_sequence_length > 0

\* C5: construct_env_data_from_model_id never returns environment data
\* whose cache_shape holds a dimension <= 0.
C5_PositiveCacheShape ==
  EnvReturned => \A k \in 1 .. 4 : envd.env_data.cache_shape[k] > 0

---------------------------------------------------------------------------
(* GemmaAttention.__init__ and GemmaAttention.forward *)

MaxHeads == 6
MaxKVHeads == 4

\* assert self.num_heads % self.num_kv_heads == 0
HeadsDivide_Unchecked(num_heads, num_kv_heads) == TRUE

HeadsDivide(num_heads, num_kv_heads) == num_heads % num_kv_heads = 0

\* Kernel = Int8KVAttentionKernel if env.quant_config.enable_kv_quantization
\*          else AttentionKernel
KernelClass(enable_kv_quantization) ==
  IF enable_kv_quantization THEN "Int8KVAttentionKernel" ELSE "AttentionKernel"

\* the whole constructor: the object it leaves, or the exception it raises
\* with the attributes set by then
NewAttention(num_heads, num_kv_heads, layer_id, enable_kv_quantization) ==
  LET args == [num_heads |-> num_heads, num_kv_heads |-> num_kv_heads,
               layer_id |-> layer_id, flag_at_init |-> enable_kv_quantization,
               num_queries_per_kv |-> 0, projections |-> {},
               attention_kernel |-> "none", used |-> "none",
               pc |-> "new", error |-> "none"]
  IN IF num_kv_heads = 0
       \* num_heads % 0
       THEN [args EXCEPT !.pc = "raised", !.error = "ZeroDivisionError"]
     ELSE IF ~HeadsDivide(num_heads, num_kv_heads)
       THEN [args EXCEPT !.pc = "raised", !.error = "AssertionError"]
     ELSE [args EXCEPT
             !.pc = "constructed",
             !.num_queries_per_kv = num_heads \div num_kv_heads,
             !.projections = {"wq", "wk", "wv", "o_proj"},
             !.attention_kernel = KernelClass(enable_kv_quantization)]

\* output = self.attention_kernel(xq, xk, xv, mask, cache, ...): the kernel
\* a forward call invokes
ForwardKernel_Reselect(self, enable_kv_quantization) ==
  KernelClass(enable_kv_quantization)

ForwardKernel(self, enable_kv_quantization) == self.attention_kernel

ConstructAttention ==
  /\ \E num_heads \in 0 .. MaxHeads, num_kv_heads \in 0 .. MaxKVHeads,
        layer_id \in Layers :
       attn' = NewAttention(num_heads, num_kv_heads, layer_id, quant)
  /\ UNCHANGED <<quant, FLAGS, fwdVars, envVars, rotVars, instVars>>

\* the configuration flag is changed while the object lives
SetKVQuantization ==
  /\ quant' = ~quant
  /\ UNCHANGED <<attn, FLAGS, fwdVars, envVars, rotVars, instVars>>

AttentionForward ==
  /\ attn.pc = "constructed"
  /\ attn' = [attn EXCEPT !.used = ForwardKernel(attn, quant)]
  /\ UNCHANGED <<quant, FLAGS, fwdVars, envVars, rotVars, instVars>>

InitAttn ==
  /\ attn = NoAttention
  /\ quant \in BOOLEAN
  /\ FlagsRest /\ FwdRest /\ EnvRest /\ RotRest /\ InstRest

NextAttn ==
  \/ ConstructAttention
  \/ SetKVQuantization
  \/ AttentionForward

SpecAttn == InitAttn /\ [][NextAttn]_vars

\* C6: a head count that num_kv_heads does not divide fails the construction
\* before any projection or kernel exists; a constructed object has
\* num_queries_per_kv * num_kv_heads = num_heads.
C6_DivisibleOrFails ==
  /\ attn.pc = "raised" =>
       attn.projections = {} /\ attn.attention_kernel = "none"
  /\ attn.pc = "constructed" =>
       /\ attn.num_kv_heads # 0
       /\ attn.num_queries_per_kv * attn.num_kv_heads = attn.num_heads
  /\ (attn.pc # "none" /\ attn.num_kv_heads # 0
        /\ attn.num_heads % attn.num_kv_heads # 0) =>
       attn.pc = "raised"

\* a construction with 5 heads over 2 kv heads was attempted
C6_Witness ==
  /\ attn.pc = "raised"
  /\ attn.error = "AssertionError"
  /\ attn.num_heads > attn.num_kv_heads
  /\ attn.num_kv_heads > 1

\* C8: the kernel variant is the one the flag selected at construction; no
\* forward call uses another, whatever the flag is by then.
C8_KernelFixedAtInit ==
  attn.pc = "constructed" =>
    /\ attn.attention_kernel = KernelClass(attn.flag_at_init)
    /\ attn.used \in {"none", KernelClass(attn.flag_at_init)}

\* a forward call was made after the flag was changed
C8_Witness ==
  /\ attn.pc = "constructed"
  /\ attn.used # "none"
  /\ quant # attn.flag_at_init

---------------------------------------------------------------------------
(* precompute_freqs_cis and apply_rotary_emb, in exact arithmetic: a complex *)
(* number is re/den + i im/den with integer re, im and den > 0             *)

HalfDim == 2
MaxAbsX == 1
MaxSeqPos == 2

Complex(re, im, den) == [re |-> re, im |-> im, den |-> den]

\* x_ * freqs_cis: the complex product
CMul_Elementwise(a, b) ==
  Complex(a.re * b.re, a.im * b.im, a.den * b.den)

CMul(a, b) ==
  Complex(a.re * b.re - a.im * b.im, a.re * b.im + a.im * b.re, a.den * b.den)

\* polar(1, freqs[i]): the unit complex number at frequency i's base angle,
\* taken among the angles whose cosine and sine are rational
BaseRotation(i) ==
  CASE i % 3 = 0 -> Complex(3, 4, 5)
    [] i % 3 = 1 -> Complex(4, 3, 5)
    [] OTHER -> Complex(0, 1, 1)

\* polar(1, t * freqs[i]) = polar(1, freqs[i]) ^ t
RECURSIVE CPow(_, _)
CPow(w, t) == IF t = 0 THEN Complex(1, 0, 1) ELSE CMul(CPow(w, t - 1), w)

\* freqs_cis[t][i] = polar(1, outer(arange(end), freqs)[t][i]), for the
\* dim // 2 frequencies of arange(0, dim, 2)[: dim // 2]
precompute_freqs_cis(dim, end) ==
  [t \in 0 .. (end - 1) |->
     [i \in 0 .. ((dim \div 2) - 1) |-> CPow(BaseRotation(i), t)]]

\* one vector of the last dimension of x (one batch row, position and head)
\* with the table row of its position; an output element is num/den
apply_rotary_emb(x, freqs_cis) ==
  LET dim == Cardinality(DOMAIN x)
      half == dim \div 2
      \* chunk(x, 2, dim=-1), stack, view_as_complex
      x_ == [i \in 0 .. (half - 1) |-> Complex(x[i], x[i + half], 1)]
      prod == [i \in 0 .. (half - 1) |-> CMul(x_[i], freqs_cis[i])]
      \* view_as_real, chunk, cat(dim=-2), reshape: the real parts, then the
      \* imaginary parts
  IN [k \in 0 .. (2 * half - 1) |->
        IF k < half
          THEN [num |-> prod[k].re, den |-> prod[k].den]
          ELSE [num |-> prod[k - half].im, den |-> prod[k - half].den]]

ApplyRotary ==
  /\ rot.pc = "input"
  /\ rot' = [rot EXCEPT
               !.pc = "done",
               !.out = apply_rotary_emb(rot.x,
                         precompute_freqs_cis(2 * HalfDim, MaxSeqPos + 1)[rot.t])]
  /\ UNCHANGED <<FLAGS, fwdVars, envVars, attnVars, instVars>>

InitRot ==
  /\ rot \in [pc : {"input"},
               x : [0 .. (2 * HalfDim - 1) -> (0 - MaxAbsX) .. MaxAbsX],
               t : 0 .. MaxSeqPos,
               out : {<< >>}]
  /\ FlagsRest /\ FwdRest /\ EnvRest /\ AttnRest /\ InstRest

NextRot == ApplyRotary

SpecRot == InitRot /\ [][NextRot]_vars

\* C9: the output has the shape of x, and each rotated pair (element i of
\* the first half with element i of the second half) keeps its norm:
\* (out[i]^2 + out[i+half]^2) = (x[i]^2 + x[i+half]^2).
C9_RotationKeepsNorm ==
  rot.pc = "done" =>
    /\ DOMAIN rot.out = DOMAIN rot.x
    /\ \A i \in 0 .. (HalfDim - 1) :
         LET a == rot.out[i]
             b == rot.out[i + HalfDim]
         IN /\ a.den = b.den
            /\ a.den > 0
            /\ a.num * a.num + b.num * b.num =
                 a.den * a.den *
                   (rot.x[i] * rot.x[i] + rot.x[i + HalfDim] * rot.x[i + HalfDim])

\* a vector with two nonzero pairs was rotated at a position past 0 and
\* came out changed
C9_Witness ==
  /\ rot.pc = "done"
  /\ rot.t > 1
  /\ \A i \in 0 .. (2 * HalfDim - 1) : rot.x[i] # 0
  /\ \A i \in 0 .. (2 * HalfDim - 1) :
       rot.out[i].num # rot.x[i] * rot.out[i].den

---------------------------------------------------------------------------
(* fetch_models.py: instantiate_model_from_repo_id, _load_weights and      *)
(* GemmaModel.from_hf_model_id                                             *)

\* the safetensors files a model directory may hold, and the tensor names
\* a file may hold
FileNames == {"model-00001.safetensors", "model-00002.safetensors"}
Keys == {"model.embed_tokens.weight", "model.norm.weight"}

\* a directory: whether it exists, and the tensor names of each of its
\* *.safetensors files
DirContents ==
  UNION {[names -> SUBSET Keys] : names \in SUBSET FileNames}

DirStates ==
  {NoDir} \cup {[exists |-> TRUE, files |-> f] : f \in DirContents}

\* the repo ids instantiate_model_from_repo_id is called with: the Gemma
\* ids, whose model class is in this source, and an unregistered id
InstRepoIds ==
  {r \in DOMAIN model_id_to_class : model_id_to_class[r].model_class = "gemma"}
    \cup {UnknownRepo}

\* not FLAGS.internal_use_random_weights and (not os.path.exists(model_dir)
\*   or not glob.glob(os.path.join(model_dir, "*.safetensors")))
NeedsDownload(flags, dir) ==
  /\ ~flags.internal_use_random_weights
  /\ (~dir.exists \/ DOMAIN dir.files = {})

\* if FLAGS.internal_use_random_weights or FLAGS.internal_use_tiny_model
UseRandomWeights_RandomOnly(flags) == flags.internal_use_random_weights

UseRandomWeights(flags) ==
  flags.internal_use_random_weights \/ flags.internal_use_tiny_model

\* _load_weights: the state dict read from every *.safetensors file of the
\* directory (its keys); the caller sees AssertionError when it is empty
LoadWeights(dir) == UNION {dir.files[f] : f \in DOMAIN dir.files}

\* GemmaModel.from_hf_model_id: the name of the configuration, "" when the
\* id is not a Gemma id
GemmaConfigName(model_id) ==
  CASE model_id \in {"google/gemma-2b", "google/gemma-2b-it"} -> "2b"
    [] model_id \in {"google/gemma-7b", "google/gemma-7b-it"} -> "7b"
    [] OTHER -> ""

\* if not state_dict: raise AssertionError(...)
NoWeightsFound_Unchecked(state_dict) == FALSE

NoWeightsFound(state_dict) == state_dict = {}

\* self.hf_name("embedder", "model.embed_tokens"), self.hf_name("norm",
\* "model.norm"): the parameter a checkpoint tensor is bound to
HfNames ==
  [k \in Keys |->
     IF k = "model.embed_tokens.weight" THEN "embedder.weight"
                                        ELSE "norm.weight"]

\* model.convert_hf_weights(weights): every checkpoint tensor under its
\* parameter's name
ConvertHfWeights(state_dict) == {HfNames[k] : k \in state_dict}

\* model.state_dict() of the freshly built model
ModelKeys == {HfNames[k] : k \in Keys}

NoModel == [built |-> FALSE]
NoWeights == [kind |-> "none"]

Raise(call, err) == [call EXCEPT !.pc = "raised", !.error = err]

\* the call is entered: model_dir = _hf_dir(repo_id)
InstCall ==
  /\ inst.pc \in {"idle", "returned", "raised"}
  /\ \E repo_id \in InstRepoIds :
       inst' = [pc |-> "download", repo_id |-> repo_id,
                model_dir |-> HfDir(repo_id), env_device |-> "cpu",
                model |-> NoModel, weights |-> NoWeights, bound |-> NoWeights,
                log |-> << >>, error |-> "none"]
  /\ UNCHANGED <<fs, FLAGS, fwdVars, envVars, attnVars, rotVars>>

\* the weights are there, or random weights are asked for: no download
InstNoDownload ==
  /\ inst.pc = "download"
  /\ ~NeedsDownload(FLAGS, fs)
  /\ inst' = [inst EXCEPT !.pc = "lookup"]
  /\ UNCHANGED <<fs, FLAGS, fwdVars, envVars, attnVars, rotVars>>

\* _hf_download: makedirs, then snapshot_download leaves whatever the
\* repository holds that matches the patterns
InstDownload ==
  /\ inst.pc = "download"
  /\ NeedsDownload(FLAGS, fs)
  /\ \E f \in DirContents :
       fs' = [exists |-> TRUE, files |-> f]
  /\ inst' = [inst EXCEPT !.pc = "lookup", !.log = Append(@, "download")]
  /\ UNCHANGED <<FLAGS, fwdVars, envVars, attnVars, rotVars>>

\* _hf_download: snapshot_download raises HTTPError, which is re-raised
InstDownloadFails ==
  /\ inst.pc = "download"
  /\ NeedsDownload(FLAGS, fs)
  /\ fs' = [exists |-> TRUE,
            files |-> IF fs.exists THEN fs.files ELSE << >>]
  /\ inst' = Raise(inst, "HTTPError")
  /\ UNCHANGED <<FLAGS, fwdVars, envVars, attnVars, rotVars>>

\* model_info = model_id_to_class.get(repo_id); assert model_info is not
\* None; env.device = "meta"
InstLookup ==
  /\ inst.pc = "lookup"
  /\ inst' = IF inst.repo_id \notin DOMAIN model_id_to_class
               THEN Raise(inst, "AssertionError")
               ELSE [inst EXCEPT !.pc = "build", !.env_device = "meta",
                                 !.log = Append(@, "meta")]
  /\ UNCHANGED <<fs, FLAGS, fwdVars, envVars, attnVars, rotVars>>

\* model = model_info.model_class.from_hf_model_id(repo_id, env, is_tiny):
\* assert name; args.device = "meta"; model = cls(args, env)
InstBuild ==
  /\ inst.pc = "build"
  /\ inst' = IF GemmaConfigName(inst.repo_id) = ""
               THEN Raise(inst, "AssertionError")
               ELSE [inst EXCEPT
                       !.pc = "weights",
                       !.model = [built |-> TRUE,
                                  config |-> GemmaConfigName(inst.repo_id),
                                  device |-> "meta",
                                  env_device |-> inst.env_device],
                       !.log = Append(@, "build")]
  /\ UNCHANGED <<fs, FLAGS, fwdVars, envVars, attnVars, rotVars>>

\* weights = _make_random_model_weights(model), or
\* weights = model.convert_hf_weights(_load_weights(model_dir))
InstWeights ==
  /\ inst.pc = "weights"
  /\ inst' =
       IF UseRandomWeights(FLAGS)
         THEN [inst EXCEPT
                 !.pc = "bind",
                 !.weights = [kind |-> "random", keys |-> ModelKeys,
                              converted |-> FALSE, dir |-> << >>],
                 !.log = Append(@, "random_weights")]
       ELSE IF NoWeightsFound(LoadWeights(fs))
         THEN Raise([inst EXCEPT !.log = Append(@, "load_weights")],
                    "AssertionError")
       ELSE [inst EXCEPT
               !.pc = "bind",
               !.weights = [kind |-> "checkpoint",
                            keys |-> ConvertHfWeights(LoadWeights(fs)),
                            converted |-> TRUE, dir |-> inst.model_dir],
               !.log = inst.log \o <<"load_weights", "convert_hf_weights">>]
  /\ UNCHANGED <<fs, FLAGS, fwdVars, envVars, attnVars, rotVars>>

\* model.load_state_dict(weights, assign=True, strict=False); return model
InstBind ==
  /\ inst.pc = "bind"
  /\ inst' = [inst EXCEPT !.pc = "returned", !.bound = inst.weights,
                          !.log = Append(@, "load_state_dict")]
  /\ UNCHANGED <<fs, FLAGS, fwdVars, envVars, attnVars, rotVars>>

InitInst ==
  /\ FLAGS \in [override_max_cache_length : {DefaultOverride},
                 internal_use_random_weights : BOOLEAN,
                 internal_use_tiny_model : BOOLEAN]
  /\ fs \in DirStates
  /\ inst = NoInstantiate
  /\ FwdRest /\ EnvRest /\ AttnRest /\ RotRest

NextInst ==
  \/ InstCall
  \/ InstNoDownload
  \/ InstDownload
  \/ InstDownloadFails
  \/ InstLookup
  \/ InstBuild
  \/ InstWeights
  \/ InstBind

SpecInst == InitInst /\ [][NextInst]_vars

\* the places of event e in the call's log
Places(e) == {k \in 1 .. Len(inst.log) : inst.log[k] = e}

\* C10: two-phase construction in order: the structure is built on the meta
\* device (env.device = "meta") first, the weights are bound by
\* load_state_dict only afterwards; they are random iff
\* internal_use_random_weights or internal_use_tiny_model is set, and else
\* the checkpoint weights of the model directory, converted.
C10_TwoPhase ==
  inst.pc # "idle" =>
    /\ inst.model.built =>
         /\ inst.model.device = "meta"
         /\ inst.model.env_device = "meta"
    /\ inst.bound.kind # "none" => inst.model.built
    /\ \A b \in Places("build") :
         /\ \E m \in Places("meta") : m < b
         /\ \A l \in Places("load_state_dict") : b < l
    /\ \A l \in Places("load_state_dict") : Places("build") # {}
    /\ inst.pc = "returned" =>
         /\ Places("load_state_dict") # {}
         /\ inst.bound.kind \in {"random", "checkpoint"}
         /\ inst.bound.kind = "random" <=>
              (FLAGS.internal_use_random_weights
                 \/ FLAGS.internal_use_tiny_model)
         /\ inst.bound.kind = "checkpoint" =>
              /\ inst.bound.converted
              /\ inst.bound.dir = HfDir(inst.repo_id)
              /\ inst.bound.keys = ConvertHfWeights(LoadWeights(fs))

\* a model was returned with checkpoint weights after a download
C10_Witness ==
  /\ inst.pc = "returned"
  /\ inst.bound.kind = "checkpoint"
  /\ Places("download") # {}

\* the call asks for real weights / names a repo id the table does not hold
RealWeights == ~UseRandomWeights(FLAGS)
Unregistered == inst.pc # "idle" /\ inst.repo_id \notin DOMAIN model_id_to_class

\* _load_weights was called in this call
LoadCalled == inst.pc # "idle" /\ Places("load_weights") # {}

\* what holds of weight loading whatever the repo id: _load_weights raises
\* when the directory yields no tensor and else returns a non-empty state
\* dict, and a call with real weights that returns has bound one tensor or
\* more
NeverBindsEmpty ==
  inst.pc # "idle" =>
    /\ (LoadCalled /\ LoadWeights(fs) = {}) =>
         inst.pc = "raised" /\ inst.error = "AssertionError"
    /\ (LoadCalled /\ LoadWeights(fs) # {}) =>
         /\ inst.pc \in {"bind", "returned"}
         /\ inst.weights.kind = "checkpoint"
         /\ inst.weights.keys # {}
    /\ (RealWeights /\ Places("load_state_dict") # {}) =>
         /\ LoadCalled
         /\ inst.bound.kind = "checkpoint"
         /\ inst.bound.keys # {}
    /\ (RealWeights /\ inst.pc = "returned") =>
         Places("load_state_dict") # {}

\* C11 as stated: weight loading never binds an empty weight table, and a
\* repo id absent from model_id_to_class fails by assertion and never
\* returns a model.
C11_FailsByAssertion ==
  /\ NeverBindsEmpty
  /\ Unregistered =>
       /\ inst.pc # "returned"
       /\ ~inst.model.built
       /\ inst.pc = "raised" => inst.error = "AssertionError"

\* C11 amended: weight loading never binds an empty weight table, and a
\* repo id absent from model_id_to_class never returns a model: it fails by
\* the assertion once the lookup is reached, or before it with the
\* HTTPError of the download that precedes the lookup.
C11_NeverBindsEmpty ==
  /\ NeverBindsEmpty
  /\ Unregistered =>
       /\ inst.pc \in {"download", "lookup", "raised"}
       /\ ~inst.model.built
       /\ inst.bound.kind = "none"
       /\ inst.pc = "raised" =>
            \/ inst.error = "AssertionError"
            \/ inst.error = "HTTPError" /\ ~FLAGS.internal_use_random_weights
                 /\ inst.log = << >>

\* _load_weights raised on a directory whose files hold no tensor
C11_Witness ==
  /\ LoadCalled
  /\ inst.pc = "raised"
  /\ inst.error = "AssertionError"
  /\ DOMAIN fs.files # {}
  /\ LoadWeights(fs) = {}

====
